---- MODULE Spec2Model ----
(***************************************************************************)
(* CPU SIFT matching of src/src/feature/sift.cc: the integer distance      *)
(* matrix, the one-way best-match selection with distance and ratio test,  *)
(* the bidirectional matcher with cross check, and the two entry points    *)
(* MatchSiftFeaturesCPU and MatchGuidedSiftFeaturesCPU.                     *)
(*                                                                         *)
(* Indices are 0-based as in the code; TLA+ sequences are 1-based, so the  *)
(* element with C++ index i is at position i + 1.  The float arithmetic of  *)
(* the code is computed in binary32 with round to nearest.  The double     *)
(* options max_ratio and max_distance are rationals [num, den], converted  *)
(* to float where the code passes them to a float parameter.               *)
(***************************************************************************)
EXTENDS Integers, Sequences, FiniteSets

VARIABLES
    pc,              \* "ready" | "returned" | "noop" | "aborted"
    call,            \* the function the last step ran ("none" before any)
    descriptors1,    \* FeatureDescriptors of image 1: rows of kDim entries
    descriptors2,    \* FeatureDescriptors of image 2
    keypoints1,      \* FeatureKeypoints of image 1: records [x, y]
    keypoints2,      \* FeatureKeypoints of image 2
    config,          \* two_view_geometry->config
    sums,            \* the orders in which the last guided call summed the
                     \* products of F * p1 or H * p1 (product) and of
                     \* p2.transpose() * Fx1 (inner) ("none" before any)
    max_ratio,       \* match_options.max_ratio, [num, den]
    max_distance,    \* match_options.max_distance, [num, den]
    cross_check,     \* match_options.cross_check
    max_error,       \* match_options.max_error, pixels
    dists,           \* the distance matrix handed to FindBestMatches
    cells,           \* number of cells of dists written by the call
    filter_calls,    \* number of evaluations of guided_filter by the call
    matches12,       \* FindBestMatches: forward one-way result
    num_matches12,
    matches21,       \* FindBestMatches: backward one-way result
    num_matches21,
    matches,         \* the FeatureMatches* argument of MatchSiftFeaturesCPU
    inlier_matches,  \* two_view_geometry->inlier_matches
    output_arg,      \* the output pointer of the call (matches,
                     \* two_view_geometry or descriptors): "nullptr" | "object"
    use_gpu,         \* match_options.use_gpu
    gpu_index,       \* the ints CSVToVector<int> reads from match_options.gpu_index
    min_num_trials,  \* match_options.min_num_trials
    max_num_trials,  \* match_options.max_num_trials
    min_inlier_ratio,    \* match_options.min_inlier_ratio, [num, den]
    min_num_inliers,     \* match_options.min_num_inliers
    options,         \* the SiftExtractionOptions of the extractors
    levels,          \* the DOG levels ExtractSiftFeaturesCPU detected last,
                     \* level i being [num_features, keypoints, descriptors]
                     \* for level_num_features[i], level_keypoints[i] and
                     \* level_descriptors[i]
    features,        \* the features ExtractCovariantSiftFeaturesCPU detected
                     \* last, as sorted
    result,          \* what the last call of an extractor returned
    keypoints,       \* *keypoints of the extractors and the loader
    descriptors,     \* *descriptors of the extractors and the loader
    vlfeat_descriptors   \* the rows of *descriptors before the transform

vars == <<pc, call, descriptors1, descriptors2, keypoints1, keypoints2, config,
          sums,
          max_ratio, max_distance, cross_check, max_error, dists, cells,
          filter_calls, matches12, num_matches12, matches21, num_matches21, matches,
          inlier_matches, output_arg, use_gpu, gpu_index, min_num_trials,
          max_num_trials, min_inlier_ratio, min_num_inliers, options,
          levels, features, result, keypoints, descriptors,
          vlfeat_descriptors>>

\* The options Check() reads and the matchers do not, and the state of the
\* extractors.
optionVars == <<use_gpu, gpu_index, min_num_trials, max_num_trials,
                min_inlier_ratio, min_num_inliers>>
extractVars == <<options, levels, features, result, keypoints, descriptors,
                 vlfeat_descriptors>>

-----------------------------------------------------------------------------
(* Bounds of the model.                                                    *)

MaxRows == 2
MaxCols == 2
MaxFeatures == 2

-----------------------------------------------------------------------------
(* Program constants.                                                      *)

\* 1 / kDistNorm: SIFT descriptor vectors are normalized to length 512.
kDistNormInv == 512 * 512

\* Number of columns of a descriptor matrix.
kDim == 128

\* The value FindBestMatchesOneWay leaves in an unmatched row.
kNoMatch == -1

\* The largest entry of a descriptor (uint8_t).
kMaxEntry == 255

-----------------------------------------------------------------------------
(* Matrices: Eigen::MatrixXi as [rows, cols, d], d[i + 1][j + 1] = m(i, j). *)


Coeff(M, i, j) == M.d[i + 1][j + 1]

Transpose(M) ==
    [rows |-> M.cols, cols |-> M.rows,
     d |-> [i \in 1..M.cols |-> [j \in 1..M.rows |-> M.d[j][i]]]]

-----------------------------------------------------------------------------
(* float: IEEE 754 binary32 with round to nearest, ties to even.  A float  *)
(* is [neg, m, e] of value (-1)^neg * m * 2^e with 2^23 <= m < 2^24, or    *)
(* F32Zero.  Infinities, NaN, the sign of zero and subnormal numbers are   *)
(* not modelled: the exponent is unbounded.  All intermediate integers     *)
(* stay below 2^31.                                                        *)

F32Zero == [neg |-> FALSE, m |-> 0, e |-> 0]

RECURSIVE BitLength(_)
\* The number of binary digits of n >= 0.
BitLength(n) == IF n = 0 THEN 0 ELSE 1 + BitLength(n \div 2)

\* quot, or quot + 1 when the digits dropped below it, rest, are more than
\* half a unit, or half a unit and quot is odd (ties to even).
RoundUp(quot, rest, half) ==
    IF rest > half \/ (rest = half /\ quot % 2 = 1) THEN quot + 1 ELSE quot

\* n / 2^k rounded to the nearest integer, ties to even.
RoundShift(n, k) ==
    IF k = 0 THEN n ELSE RoundUp(n \div 2^k, n % 2^k, 2^(k - 1))

\* n with its last bit set when digits below it were dropped.
Jam(n, dropped) == IF dropped /\ n % 2 = 0 THEN n + 1 ELSE n

\* The float of the rounded significand r <= 2^24.
Carry(neg, r, e) ==
    IF r = 2^24 THEN [neg |-> neg, m |-> 2^23, e |-> e + 1]
                ELSE [neg |-> neg, m |-> r, e |-> e]

\* The float nearest to (-1)^neg * n * 2^e, n > 0 of len binary digits.
RoundBits(neg, n, e, len) ==
    IF len <= 24
      THEN [neg |-> neg, m |-> n * 2^(24 - len), e |-> e - (24 - len)]
      ELSE Carry(neg, RoundShift(n, len - 24), e + len - 24)

\* The float nearest to (-1)^neg * n * 2^e, for 0 <= n < 2^31.
F32Round(neg, n, e) ==
    IF n = 0 THEN F32Zero ELSE RoundBits(neg, n, e, BitLength(n))

\* The conversion of an int to float.
F32FromInt(n) == F32Round(n < 0, IF n < 0 THEN -n ELSE n, 0)

F32Neg(a) == IF a.m = 0 THEN a ELSE [a EXCEPT !.neg = ~a.neg]

\* |a| < |b|
F32MagLess(a, b) ==
    b.m # 0 /\ (a.m = 0 \/ a.e < b.e \/ (a.e = b.e /\ a.m < b.m))

\* a < b
F32Less(a, b) ==
    IF a.neg # b.neg THEN a.neg
    ELSE IF a.neg THEN F32MagLess(b, a) ELSE F32MagLess(a, b)

\* a > b, a >= b, std::min(a, b)
F32Gt(a, b) == F32Less(b, a)
F32Ge(a, b) == ~F32Less(a, b)
F32Min(a, b) == IF F32Less(b, a) THEN b ELSE a

\* high * 2^24 + low as [hi, lo] with lo < 2^24.
Carry48(high, low) == [hi |-> high + low \div 2^24, lo |-> low % 2^24]

\* The 48-bit product (a1 * 2^12 + a0) * (b1 * 2^12 + b0) of two
\* significands given by their 12-bit halves.
Product48(a1, a0, b1, b0) ==
    Carry48(a1 * b1 + (a1 * b0 + a0 * b1) \div 4096,
            a0 * b0 + ((a1 * b0 + a0 * b1) % 4096) * 4096)

\* The float nearest to (-1)^neg * (p.hi * 2^24 + p.lo) * 2^e: the product
\* has 47 or 48 binary digits and is rounded to 24.
ProductRound(neg, p, e) ==
    IF p.hi >= 2^23
      THEN Carry(neg, RoundUp(p.hi, p.lo, 2^23), e + 24)
      ELSE Carry(neg, RoundUp(2 * p.hi + p.lo \div 2^23, p.lo % 2^23, 2^22),
                 e + 23)

\* a * b
F32Mul(a, b) ==
    IF a.m = 0 \/ b.m = 0 THEN F32Zero
    ELSE ProductRound(a.neg # b.neg,
                      Product48(a.m \div 4096, a.m % 4096,
                                b.m \div 4096, b.m % 4096),
                      a.e + b.e)

\* x + y for |x| >= |y| > 0, Y the significand of y aligned to 8 * x.m.
AlignedSum(x, y, Y) ==
    F32Round(x.neg, IF x.neg = y.neg THEN x.m * 8 + Y ELSE x.m * 8 - Y,
             x.e - 3)

\* x + y for |x| >= |y| > 0: the significand of y is aligned to that of x
\* with three more bits, the last of them set when digits were dropped.
AlignedAdd(x, y, d) ==
    AlignedSum(x, y, Jam((y.m * 8) \div 2^d, (y.m * 8) % 2^d # 0))

\* a + b
F32Add(a, b) ==
    IF a.m = 0 THEN b
    ELSE IF b.m = 0 THEN a
    ELSE IF F32MagLess(a, b)
      THEN AlignedAdd(b, a, IF b.e - a.e > 27 THEN 27 ELSE b.e - a.e)
      ELSE AlignedAdd(a, b, IF a.e - b.e > 27 THEN 27 ELSE a.e - b.e)

F32Sub(a, b) == F32Add(a, F32Neg(b))

RECURSIVE DivDigits(_, _, _, _)
\* Long division, seven binary digits of the quotient at a time.
DivDigits(rest, bm, steps, acc) ==
    IF steps = 0 THEN [quot |-> acc, rest |-> rest]
    ELSE DivDigits((rest * 128) % bm, bm, steps - 1,
                   acc * 128 + (rest * 128) \div bm)

\* The float of the quotient d = [quot, rest] of the significands.
QuotientRound(neg, d, e) == F32Round(neg, Jam(d.quot, d.rest # 0), e)

\* a / b for b # 0.
F32Div(a, b) ==
    IF a.m = 0 THEN F32Zero
    ELSE QuotientRound(a.neg # b.neg,
                       DivDigits(a.m % b.m, b.m, 4, a.m \div b.m),
                       a.e - b.e - 28)

RECURSIVE SqrtDigits(_, _, _, _)
RECURSIVE SqrtStep(_, _, _, _)
\* The integer square root of M * 4^15, M < 4^13, one binary digit of the
\* root for every pair of digits of the radicand: [root, rest].
SqrtDigits(M, i, rest, root) ==
    IF i = 28 THEN [root |-> root, rest |-> rest]
    ELSE SqrtStep(M, i, rest * 4 + (IF i < 13 THEN (M \div 4^(12 - i)) % 4 ELSE 0),
                  root)

\* Digit i of the root, r the remainder with the next pair of digits.
SqrtStep(M, i, r, root) ==
    IF r >= root * 4 + 1
      THEN SqrtDigits(M, i + 1, r - (root * 4 + 1), root * 2 + 1)
      ELSE SqrtDigits(M, i + 1, r, root * 2)

\* The float of the root s = [root, rest] of M * 4^15, times 2^e.
RootRound(s, e) == F32Round(FALSE, Jam(s.root, s.rest # 0), e)

\* sqrtf(a) for a > 0: the root of a.m * 2^a.e with the exponent made even.
F32Sqrt(a) ==
    RootRound(SqrtDigits(IF a.e % 2 = 1 THEN a.m * 2 ELSE a.m, 0, 0, 0),
              (IF a.e % 2 = 1 THEN a.e - 1 ELSE a.e) \div 2 - 15)

-----------------------------------------------------------------------------
(* std::acos(float) on [0, 1], as the C library computes it (acosf of      *)
(* fdlibm, e_acosf.c): a rational approximation r = p / q of               *)
(* (asin(t) - t) / t^3 in z = t^2, evaluated in float.                     *)

F32One == F32FromInt(1)
F32Two == F32FromInt(2)
F32OneHalf == F32Div(F32One, F32Two)

pio2_hi == [neg |-> FALSE, m |-> 13176794, e |-> -23]  \* 1.5707962513e+00
pio2_lo == [neg |-> FALSE, m |-> 10625384, e |-> -47]  \* 7.5497894159e-08
pS0 == [neg |-> FALSE, m |-> 11184811, e |-> -26]      \* 1.6666667163e-01
pS1 == [neg |-> TRUE, m |-> 10924176, e |-> -25]       \* -3.2556581497e-01
pS2 == [neg |-> FALSE, m |-> 13503144, e |-> -26]      \* 2.0121252537e-01
pS3 == [neg |-> TRUE, m |-> 10752326, e |-> -28]       \* -4.0055535734e-02
pS4 == [neg |-> FALSE, m |-> 13598468, e |-> -34]      \* 7.9153501429e-04
pS5 == [neg |-> FALSE, m |-> 9563912, e |-> -38]       \* 3.4793309169e-05
qS1 == [neg |-> TRUE, m |-> 10080569, e |-> -22]       \* -2.4033949375e+00
qS2 == [neg |-> FALSE, m |-> 8476461, e |-> -22]       \* 2.0209457874e+00
qS3 == [neg |-> TRUE, m |-> 11547489, e |-> -24]       \* -6.8828397989e-01
qS4 == [neg |-> FALSE, m |-> 10339886, e |-> -27]      \* 7.7038154006e-02

\* p = z*(pS0+z*(pS1+z*(pS2+z*(pS3+z*(pS4+z*pS5)))))
AcosfP(z) ==
    F32Mul(z, F32Add(pS0, F32Mul(z, F32Add(pS1, F32Mul(z, F32Add(pS2,
        F32Mul(z, F32Add(pS3, F32Mul(z, F32Add(pS4, F32Mul(z, pS5)))))))))))

\* q = one+z*(qS1+z*(qS2+z*(qS3+z*qS4)))
AcosfQ(z) ==
    F32Add(F32One, F32Mul(z, F32Add(qS1, F32Mul(z, F32Add(qS2,
        F32Mul(z, F32Add(qS3, F32Mul(z, qS4))))))))

\* r = p / q
AcosfRatio(z) == F32Div(AcosfP(z), AcosfQ(z))

\* |x| < 0.5: pio2_hi - (x - (pio2_lo - x * r)), r of z = x * x.
AcosfLow(x) ==
    F32Sub(pio2_hi,
           F32Sub(x, F32Sub(pio2_lo, F32Mul(x, AcosfRatio(F32Mul(x, x))))))

\* x >= 0.5: 2 * (df + w) with c = (z - df * df) / (s + df) and
\* w = r * s + c.
AcosfHigh(z, s, df) ==
    F32Mul(F32Two,
           F32Add(df, F32Add(F32Mul(AcosfRatio(z), s),
                             F32Div(F32Sub(z, F32Mul(df, df)),
                                    F32Add(s, df)))))

\* df: s with the low 12 bits of its significand cleared.
AcosfOfRoot(z, s) == AcosfHigh(z, s, [s EXCEPT !.m = s.m - (s.m % 4096)])

\* s = sqrtf(z)
AcosfOfHalf(z) == AcosfOfRoot(z, F32Sqrt(z))

\* ix <= 0x32800000: |x| <= 2^-26 = 2^23 * 2^-49.
AcosfTiny(x) == x.m = 0 \/ x.e < -49 \/ (x.e = -49 /\ x.m = 2^23)

\* acosf(x) for 0 <= x <= 1; z = (one - x) * 0.5 when x >= 0.5.
Acosf(x) ==
    IF x = F32One THEN F32Zero
    ELSE IF F32Less(x, F32OneHalf)
      THEN IF AcosfTiny(x) THEN F32Add(pio2_hi, pio2_lo) ELSE AcosfLow(x)
      ELSE AcosfOfHalf(F32Mul(F32Sub(F32One, x), F32OneHalf))

(* double: the quotient of two ints, as the division of two doubles gives *)
(* it.  A double is [neg, hi, lo, e] of value                              *)
(* (-1)^neg * (hi * 2^29 + lo) * 2^e, its 53-bit significand split into    *)
(* the first 24 bits, hi, and the other 29, lo.                            *)

\* The significand hi * 2^29 + lo, one more when the digits dropped below it
\* round up.
DoubleRound(neg, hi, lo, up, e) ==
    IF ~up THEN [neg |-> neg, hi |-> hi, lo |-> lo, e |-> e]
    ELSE IF lo + 1 = 2^29 THEN [neg |-> neg, hi |-> hi + 1, lo |-> 0, e |-> e]
    ELSE [neg |-> neg, hi |-> hi, lo |-> lo + 1, e |-> e]

\* The digits one step of the long division by den takes: as many as keep
\* rest * 2^b, rest < den, below 2^31.
StepBits(den) ==
    IF BitLength(den - 1) <= 2 THEN 29 ELSE 31 - BitLength(den - 1)

RECURSIVE Digits(_, _, _, _, _)
\* Binary long division of rest / den, rest < den <= 2^30: k more digits
\* behind those of acc, b at a time, and the remainder behind them.
Digits(rest, den, acc, k, b) ==
    IF k = 0 THEN [q |-> acc, rest |-> rest]
    ELSE IF k < b THEN Digits(rest, den, acc, k, k)
    ELSE Digits((rest * 2^b) % den, den, acc * 2^b + (rest * 2^b) \div den,
                k - b, b)

\* The zeros before the first digit 1 of rest / den, 0 < rest < den, z0
\* being the digits den has more than rest.
ZeroShift(rest, den, z0) ==
    IF z0 >= 1 /\ 2 * (rest * 2^(z0 - 1)) >= den THEN z0 - 1 ELSE z0

LeadingZeros(rest, den) ==
    ZeroShift(rest, den, BitLength(den) - BitLength(rest))

\* The double with the first 24 bits hi and the other 29 the digits of low,
\* rounded to nearest, ties to even, by the remainder of low.
DoubleLow(neg, hi, low, den, e) ==
    DoubleRound(neg, hi, low.q,
                \/ 2 * low.rest > den
                \/ (2 * low.rest = den /\ low.q % 2 = 1),
                e)

\* The double with the first 24 bits the digits of high.
DoubleHigh(neg, high, den, e) ==
    DoubleLow(neg, high.q, Digits(high.rest, den, 0, 29, StepBits(den)), den, e)

\* The double of rest / den, 0 < rest < den, with z zeros before its first
\* digit 1.
DoubleSmall(neg, rest, den, z) ==
    DoubleHigh(neg, Digits(rest * 2^z, den, 0, 24, StepBits(den)), den, -53 - z)

\* The double of whole + rest / den, whole >= 0 of len binary digits.
DoubleQuotient(neg, whole, rest, den, len) ==
    IF len > 24
      THEN DoubleLow(neg, whole \div 2^(len - 24),
                     Digits(rest, den, whole % 2^(len - 24), 53 - len,
                            StepBits(den)),
                     den, len - 53)
    ELSE IF len > 0
      THEN DoubleHigh(neg, Digits(rest, den, whole, 24 - len, StepBits(den)),
                      den, len - 53)
    ELSE DoubleSmall(neg, rest, den, LeadingZeros(rest, den))

\* double(num) / double(den) for num # 0 and 0 < den <= 2^30.
DoubleDiv(num, den) ==
    DoubleQuotient(num < 0, (IF num < 0 THEN -num ELSE num) \div den,
                   (IF num < 0 THEN -num ELSE num) % den, den,
                   BitLength((IF num < 0 THEN -num ELSE num) \div den))

\* The conversion of a double to float: its 53 bits rounded to 24.
F32FromDouble(d) == Carry(d.neg, RoundUp(d.hi, d.lo, 2^28), d.e + 29)

\* The float of a double option, the double being q.num / q.den.
ToFloat(q) ==
    IF q.num = 0 THEN F32Zero ELSE F32FromDouble(DoubleDiv(q.num, q.den))

-----------------------------------------------------------------------------
(* The normalized distance and the two thresholds of the ratio test.       *)

\* const float kDistNorm = 1.0f / (512.0f * 512.0f)
kDistNorm == F32Div(F32One, F32Mul(F32FromInt(512), F32FromInt(512)))

\* acosf at the multiples of 1 / 16, computed once.
AcosfSixteenths ==
    [k \in 0..16 |-> Acosf(F32Div(F32FromInt(k), F32FromInt(16)))]

\* std::acos(std::min(kDistNorm * dist, 1.0f)); the values at the multiples
\* of kDistNormInv / 16 are taken from AcosfSixteenths.
DistNormed(dist) ==
    IF dist >= 0 /\ dist <= kDistNormInv /\ dist % (kDistNormInv \div 16) = 0
      THEN AcosfSixteenths[dist \div (kDistNormInv \div 16)]
      ELSE Acosf(F32Min(F32Mul(kDistNorm, F32FromInt(dist)), F32One))

\* best_dist_normed > max_distance
ExceedsMaxDistance(best_dist_normed, maxd) == F32Gt(best_dist_normed, maxd)

\* best_dist_normed >= max_ratio * second_best_dist_normed
FailsRatioTest(best_dist_normed, ratio, second_best_dist_normed) ==
    F32Ge(best_dist_normed, F32Mul(ratio, second_best_dist_normed))

-----------------------------------------------------------------------------
(* TransformVLFeatToUBCFeatureDescriptors.                                 *)

\* q as a rotation of the eight bins by one.
qRotated == <<1, 2, 3, 4, 5, 6, 7, 0>>

\* const std::array<int, 8> q{{0, 7, 6, 5, 4, 3, 2, 1}}
q == <<0, 7, 6, 5, 4, 3, 2, 1>>

\* One row of the result: the loops over i, j, k write
\* ubc(n, 8 * (j + 4 * i) + q[k]) = vlfeat(n, 8 * (j + 4 * i) + k), so entry
\* 8 * cell + b of the row is the entry 8 * cell + k of the input with q[k] = b
\* (every b of 0..7 is written once, q being a permutation of 0..7).
TransformRow(vlfeat) ==
    [m \in 1..kDim |->
        LET cell == (m - 1) \div 8
            k    == CHOOSE kk \in 0..7 : q[kk + 1] = (m - 1) % 8
        IN  vlfeat[8 * cell + k + 1]]

\* The returned matrix, row by row.
TransformVLFeatToUBCFeatureDescriptors(vlfeat) ==
    [n \in 1..Len(vlfeat) |-> TransformRow(vlfeat[n])]

-----------------------------------------------------------------------------
(* FindBestMatchesOneWay.                                                  *)

\* IsNewBest that also takes a value equal to the running best.
IsNewBestOrEqual(dist, st) == dist >= st.best_dist

\* if (dist > best_dist)
IsNewBest(dist, st) == dist > st.best_dist

\* IsNewSecondBest that leaves out a value equal to the running best.
IsNewSecondBestBelowBest(dist, st) ==
    dist > st.second_best_dist /\ dist < st.best_dist

\* else if (dist > second_best_dist)
IsNewSecondBest(dist, st) == dist > st.second_best_dist

RECURSIVE ScanRow(_, _, _, _)
\* The inner loop over the columns i2 of row i1, from column i2 on.
ScanRow(M, i1, i2, st) ==
    IF i2 >= M.cols THEN st
    ELSE LET dist == Coeff(M, i1, i2)
             nxt  == IF IsNewBest(dist, st)
                       THEN [best_i2 |-> i2, best_dist |-> dist,
                             second_best_dist |-> st.best_dist]
                     ELSE IF IsNewSecondBest(dist, st)
                       THEN [st EXCEPT !.second_best_dist = dist]
                     ELSE st
         IN  ScanRow(M, i1, i2 + 1, nxt)

\* RowBest with second_best_dist following best_dist.
RowBestSecondIsBest(M, i1) ==
    LET st == ScanRow(M, i1, 0,
                      [best_i2 |-> -1, best_dist |-> 0, second_best_dist |-> 0])
    IN  [st EXCEPT !.second_best_dist = st.best_dist]

\* The row's tracked best column, best and second-best value.
RowBest(M, i1) ==
    ScanRow(M, i1, 0, [best_i2 |-> -1, best_dist |-> 0, second_best_dist |-> 0])

\* RowAccepted without the max_distance threshold.
RowAcceptedNoDistance(st, ratio, maxd) ==
    IF st.best_i2 = -1 THEN FALSE
    ELSE IF FailsRatioTest(DistNormed(st.best_dist), ratio,
                           DistNormed(st.second_best_dist)) THEN FALSE
    ELSE TRUE

\* TRUE iff the body of the row loop reaches "num_matches += 1".
RowAccepted(st, ratio, maxd) ==
    IF st.best_i2 = -1 THEN FALSE
    ELSE IF ExceedsMaxDistance(DistNormed(st.best_dist), maxd) THEN FALSE
    ELSE IF FailsRatioTest(DistNormed(st.best_dist), ratio,
                           DistNormed(st.second_best_dist)) THEN FALSE
    ELSE TRUE

RECURSIVE RowLoop(_, _, _, _, _)
\* The outer loop over the rows, from row i1 on.
RowLoop(M, ratio, maxd, i1, acc) ==
    IF i1 >= M.rows THEN acc
    ELSE LET st == RowBest(M, i1)
         IN  RowLoop(M, ratio, maxd, i1 + 1,
                     IF RowAccepted(st, ratio, maxd)
                       THEN [num_matches |-> acc.num_matches + 1,
                             matches |-> [acc.matches EXCEPT ![i1 + 1] = st.best_i2]]
                       ELSE acc)

\* Returns [num_matches, matches]; matches is resized to dists.rows() with -1.
FindBestMatchesOneWay(M, ratio, maxd) ==
    RowLoop(M, ratio, maxd, 0,
            [num_matches |-> 0, matches |-> [i \in 1..M.rows |-> kNoMatch]])

-----------------------------------------------------------------------------
(* FindBestMatches.                                                        *)

FeatureMatch(i1, i2) == [point2D_idx1 |-> i1, point2D_idx2 |-> i2]

\* CrossCheckKeeps without the comparison of the backward match with i1.
CrossCheckKeepsAnyBackward(m12, m21, i1) ==
    /\ m12[i1 + 1] # -1
    /\ m21[m12[i1 + 1] + 1] # -1

\* CrossCheckKeeps without the look at matches21.
CrossCheckKeepsForward(m12, m21, i1) == m12[i1 + 1] # -1

\* The condition of the push_back in the cross_check branch.
CrossCheckKeeps(m12, m21, i1) ==
    /\ m12[i1 + 1] # -1
    /\ m21[m12[i1 + 1] + 1] # -1
    /\ m21[m12[i1 + 1] + 1] = i1

\* OneWayKeeps without the test for the sentinel.
OneWayKeepsAll(m12, i1) == TRUE

\* The condition of the push_back in the branch without cross check.
OneWayKeeps(m12, i1) == m12[i1 + 1] # -1

RECURSIVE EmitCrossChecked(_, _, _, _)
EmitCrossChecked(m12, m21, i1, out) ==
    IF i1 >= Len(m12) THEN out
    ELSE EmitCrossChecked(m12, m21, i1 + 1,
             IF CrossCheckKeeps(m12, m21, i1)
               THEN Append(out, FeatureMatch(i1, m12[i1 + 1]))
               ELSE out)

RECURSIVE EmitOneWay(_, _, _)
EmitOneWay(m12, i1, out) ==
    IF i1 >= Len(m12) THEN out
    ELSE EmitOneWay(m12, i1 + 1,
             IF OneWayKeeps(m12, i1)
               THEN Append(out, FeatureMatch(i1, m12[i1 + 1]))
               ELSE out)

\* FindBestMatches without matches->clear().
NotCleared(list) == list

\* matches->clear()
Cleared(list) == <<>>

\* The backward pass runs on dists.transpose().
BackwardInput(M) == Transpose(M)

\* FindBestMatches(dists, max_ratio, max_distance, cross_check, matches):
\* the locals at return and the list *matches.
FindBestMatches(M, ratio, maxd, cc, list) ==
    LET fwd == FindBestMatchesOneWay(M, ratio, maxd)
    IN  IF cc
          THEN LET bwd == FindBestMatchesOneWay(BackwardInput(M), ratio, maxd)
               IN  [matches12 |-> fwd.matches, num_matches12 |-> fwd.num_matches,
                    matches21 |-> bwd.matches, num_matches21 |-> bwd.num_matches,
                    matches |-> EmitCrossChecked(fwd.matches, bwd.matches, 0,
                                                 Cleared(list))]
          ELSE [matches12 |-> fwd.matches, num_matches12 |-> fwd.num_matches,
                matches21 |-> <<>>, num_matches21 |-> 0,
                matches |-> EmitOneWay(fwd.matches, 0, Cleared(list))]

-----------------------------------------------------------------------------
(* ComputeSiftDistanceMatrix.                                              *)

\* descriptors1_int.row(i1).dot(descriptors2_int.row(i2)), in int: the sum of
\* the products of the entries lo..hi, eight entries at a time and the rest
\* by halves (int addition is associative as long as nothing overflows, and
\* 128 * 255 * 255 < 2^31).
RECURSIVE DotRange(_, _, _, _)
DotRange(u, v, lo, hi) ==
    IF hi - lo = 7
      THEN u[lo] * v[lo] + u[lo + 1] * v[lo + 1] + u[lo + 2] * v[lo + 2]
           + u[lo + 3] * v[lo + 3] + u[lo + 4] * v[lo + 4] + u[lo + 5] * v[lo + 5]
           + u[lo + 6] * v[lo + 6] + u[lo + 7] * v[lo + 7]
      ELSE LET mid == (lo + hi) \div 2
           IN  DotRange(u, v, lo, mid) + DotRange(u, v, mid + 1, hi)

\* The dot product with the first entry counted twice.
DotFirstTwice(u, v) == DotRange(u, v, 1, kDim) + u[1] * v[1]

Dot(u, v) == DotRange(u, v, 1, kDim)

\* A null std::function, and a null keypoints pointer.
NullFilter == [kind |-> "null"]
NullKeypoints == [null |-> TRUE, kp |-> <<>>]
Keypoints(kp) == [null |-> FALSE, kp |-> kp]

\* cast<float>() of a 3x3 matrix (a sequence of three rows).
Matrix3f(A) == [r \in 1..3 |-> [c \in 1..3 |-> F32FromInt(A[r][c])]]

\* The order in which a product of Eigen sums three terms is that of the
\* Eigen the program is built with: the halves of an unrolled reduction,
\* t0 + (t1 + t2) ("pairwise"), or one term after the other, (t0 + t1) + t2
\* ("sequential").  A call runs with one order for the products of a matrix
\* and a vector and one for the inner products.
Orders == {"pairwise", "sequential"}
SummationOrders == [product : Orders, inner : Orders]
NoSums == [product |-> "none", inner |-> "none"]

\* The float sum of t0, t1 and t2 in the order order.
Sum3f(t0, t1, t2, order) ==
    IF order = "sequential" THEN F32Add(F32Add(t0, t1), t2)
                            ELSE F32Add(t0, F32Add(t1, t2))

\* The sum of the three products a[k] * b[k] in float.
Dot3f(a, b, order) ==
    Sum3f(F32Mul(a[1], b[1]), F32Mul(a[2], b[2]), F32Mul(a[3], b[3]), order)

\* Product of a Matrix3f and a Vector3f.
MatVec(A, p, order) ==
    <<Dot3f(A[1], p, order), Dot3f(A[2], p, order), Dot3f(A[3], p, order)>>
Transpose3(A) == [r \in 1..3 |-> [c \in 1..3 |-> A[c][r]]]

\* a * a
Square(a) == F32Mul(a, a)

\* a / b > bound in float.  With b = 0 the quotient is an infinity, which
\* exceeds the bound when it is positive, or NaN, which compares false.
QuotientExceeds(a, b, bound) ==
    IF b.m = 0 THEN a.m # 0 /\ ~a.neg
    ELSE F32Gt(F32Div(a, b), bound)

\* x2tFx1 * x2tFx1 / (Fx1(0)^2 + Fx1(1)^2 + Ftx2(0)^2 + Ftx2(1)^2) >
\* max_residual; the denominator is summed from left to right.
SampsonExceeds(p2, Fx1, Ftx2, max_residual, order) ==
    QuotientExceeds(Square(Dot3f(p2, Fx1, order)),
                    F32Add(F32Add(F32Add(Square(Fx1[1]), Square(Fx1[2])),
                                  Square(Ftx2[1])),
                           Square(Ftx2[2])),
                    max_residual)

\* The lambda of the CALIBRATED / UNCALIBRATED branch, on a Matrix3f F and
\* float arguments: p1 = (x1, y1, 1), p2 = (x2, y2, 1), Fx1 = F * p1 and
\* Ftx2 = F^T * p2, summed in the orders s.
EpipolarFilter(F, max_residual, s, x1, y1, x2, y2) ==
    SampsonExceeds(<<x2, y2, F32One>>,
                   MatVec(F, <<x1, y1, F32One>>, s.product),
                   MatVec(Transpose3(F), <<x2, y2, F32One>>, s.product),
                   max_residual, s.inner)

\* (Hp1.hnormalized() - p2).squaredNorm() > max_residual.  hnormalized()
\* divides the first two coordinates by the third, w; with w = 0 a quotient
\* is an infinity, and the squared norm exceeds max_residual, unless a
\* coordinate is 0 / 0 = NaN.
TransferExceeds(Hp1, x2, y2, max_residual) ==
    IF Hp1[3].m = 0 THEN Hp1[1].m # 0 /\ Hp1[2].m # 0
    ELSE F32Gt(F32Add(Square(F32Sub(F32Div(Hp1[1], Hp1[3]), x2)),
                      Square(F32Sub(F32Div(Hp1[2], Hp1[3]), y2))),
               max_residual)

\* The lambda of the PLANAR / PANORAMIC / PLANAR_OR_PANORAMIC branch, on a
\* Matrix3f H and float arguments: Hp1 = H * (x1, y1, 1), summed in the
\* orders s.
HomographyFilter(H, max_residual, s, x1, y1, x2, y2) ==
    TransferExceeds(MatVec(H, <<x1, y1, F32One>>, s.product), x2, y2,
                    max_residual)

\* guided_filter(x1, y1, x2, y2) of a non-null filter.
GuidedFilter(filter, x1, y1, x2, y2) ==
    IF filter.kind = "epipolar"
      THEN EpipolarFilter(filter.F, filter.max_residual, filter.sums,
                          x1, y1, x2, y2)
      ELSE HomographyFilter(filter.H, filter.max_residual, filter.sums,
                            x1, y1, x2, y2)

\* The CHECKs without those on keypoints2.
KeypointChecksFirstOnly(kps1, kps2, d1, d2, filter) ==
    filter.kind # "null" => (~kps1.null /\ Len(kps1.kp) = Len(d1))

\* The CHECKs at the head of ComputeSiftDistanceMatrix.
KeypointChecksPass(kps1, kps2, d1, d2, filter) ==
    filter.kind # "null" =>
        /\ ~kps1.null
        /\ ~kps2.null
        /\ Len(kps1.kp) = Len(d1)
        /\ Len(kps2.kp) = Len(d2)

\* The cell without the guided filter.
DistCellUnfiltered(kps1, kps2, d1, d2, filter, i1, i2) == Dot(d1[i1 + 1], d2[i2 + 1])

\* The cell dists(i1, i2).
DistCell(kps1, kps2, d1, d2, filter, i1, i2) ==
    IF /\ filter.kind # "null"
       /\ GuidedFilter(filter, F32FromInt(kps1.kp[i1 + 1].x),
                       F32FromInt(kps1.kp[i1 + 1].y),
                       F32FromInt(kps2.kp[i2 + 1].x),
                       F32FromInt(kps2.kp[i2 + 1].y))
      THEN 0
      ELSE Dot(d1[i1 + 1], d2[i2 + 1])

RECURSIVE FillRow(_, _, _, _, _, _, _, _)
\* The inner loop over i2: the cells of row i1 from column i2 on.
FillRow(kps1, kps2, d1, d2, filter, i1, i2, row) ==
    IF i2 >= Len(d2) THEN row
    ELSE FillRow(kps1, kps2, d1, d2, filter, i1, i2 + 1,
                 Append(row, DistCell(kps1, kps2, d1, d2, filter, i1, i2)))

RECURSIVE FillRows(_, _, _, _, _, _, _)
\* The outer loop over i1: the rows from row i1 on.
FillRows(kps1, kps2, d1, d2, filter, i1, rows) ==
    IF i1 >= Len(d1) THEN rows
    ELSE FillRows(kps1, kps2, d1, d2, filter, i1 + 1,
                  Append(rows, FillRow(kps1, kps2, d1, d2, filter, i1, 0, <<>>)))

\* ComputeSiftDistanceMatrix: [aborted, dists, cells, filter_calls].
ComputeSiftDistanceMatrix(kps1, kps2, d1, d2, filter) ==
    IF ~KeypointChecksPass(kps1, kps2, d1, d2, filter)
      THEN [aborted |-> TRUE, dists |-> [rows |-> 0, cols |-> 0, d |-> <<>>],
            cells |-> 0, filter_calls |-> 0]
      ELSE [aborted |-> FALSE,
            dists |-> [rows |-> Len(d1), cols |-> Len(d2),
                       d |-> FillRows(kps1, kps2, d1, d2, filter, 0, <<>>)],
            cells |-> Len(d1) * Len(d2),
            filter_calls |-> IF filter.kind = "null" THEN 0 ELSE Len(d1) * Len(d2)]

-----------------------------------------------------------------------------
(* Inputs of the model.                                                    *)

\* A descriptor with value v in the 4-entry blocks S (blocks 0..31), else 0.
BlockDescriptor(S, v) == [k \in 1..kDim |-> IF ((k - 1) \div 4) \in S THEN v ELSE 0]

\* Three descriptors of L2 norm 512 and one with every entry 255.
DescA == BlockDescriptor({0, 1, 2, 3}, 128)
DescB == BlockDescriptor({0, 1, 2, 4}, 128)
DescFull == [k \in 1..kDim |-> kMaxEntry]
DescriptorAlphabet == {DescA, DescB, DescFull}

\* The descriptors of image 2 are drawn from two of them.
DescriptorAlphabet2 == {DescA, DescFull}

SeqsUpTo(S, n) == UNION {[1..k -> S] : k \in 0..n}

\* Keypoint i of either image; x and y are floats of whole value, held as
\* integers.
GridPoint(i) == [x |-> 2 * (i \div 2), y |-> 2 * (i % 2)]
GridKeypoints(n) == [i \in 1..n |-> GridPoint(i - 1)]

\* Values of TwoViewGeometry::config: the five the code names and one other.
Configs == {"UNDEFINED", "CALIBRATED", "UNCALIBRATED", "PLANAR", "PANORAMIC",
            "PLANAR_OR_PANORAMIC"}

\* F of a camera translating along x (epipolar lines are the image rows), and
\* H translating by (0, 2).
GeomF == << <<0, 0, 0>>, <<0, 0, -1>>, <<0, 1, 0>> >>
GeomH == << <<1, 0, 0>>, <<0, 1, 2>>, <<0, 0, 1>> >>

\* Pairs of max_ratio and max_distance FindBestMatches is applied with.
ThresholdPairs ==
    {[max_ratio |-> [num |-> 2, den |-> 5], max_distance |-> [num |-> 8, den |-> 5]],
     [max_ratio |-> [num |-> 1, den |-> 1], max_distance |-> [num |-> 7, den |-> 10]],
     [max_ratio |-> [num |-> 2, den |-> 1], max_distance |-> [num |-> 8, den |-> 5]]}
MaxErrors == {1}

\* Entries of the matrices FindBestMatches is applied to directly.
DistLevels == {0, 3 * (kDistNormInv \div 4), kDistNormInv}

Matrices ==
    UNION {{[rows |-> r, cols |-> c, d |-> f] : f \in [1..r -> [1..c -> DistLevels]]} :
           <<r, c>> \in (0..MaxRows) \X (0..MaxCols)}

\* Contents of an output list before the call: matches left by an earlier use.
StaleMatches == <<FeatureMatch(1, 0), FeatureMatch(0, 1)>>

\* Options that pass Check(): thresholds 0.8 and 0.7, max_error 1.
ValidOptions ==
    [use_gpu |-> TRUE, gpu_index |-> <<-1>>,
     max_ratio |-> [num |-> 4, den |-> 5],
     max_distance |-> [num |-> 7, den |-> 10],
     cross_check |-> TRUE,
     max_error |-> 1,
     min_num_trials |-> 30, max_num_trials |-> 10000,
     min_inlier_ratio |-> [num |-> 1, den |-> 4],
     min_num_inliers |-> 15]

\* ValidOptions with a loose pair of thresholds.
LooseOptions ==
    [ValidOptions EXCEPT !.max_ratio = [num |-> 2, den |-> 1],
                         !.max_distance = [num |-> 8, den |-> 5]]

\* Options of the entry points: ValidOptions and LooseOptions with and without
\* cross check, and two that Check() refuses.
MatchOptions ==
    {ValidOptions, [ValidOptions EXCEPT !.cross_check = FALSE],
     LooseOptions, [LooseOptions EXCEPT !.cross_check = FALSE],
     [ValidOptions EXCEPT !.gpu_index = <<>>],
     [ValidOptions EXCEPT !.max_num_trials = 0]}

\* The output pointer of a call.
Pointers == {"nullptr", "object"}

\* Lengths of the keypoint sequences for descriptor sets of n1 and n2 rows:
\* matching, or one of the two a keypoint too long.
KeypointLengths(n1, n2) == {<<n1, n2>>, <<n1 + 1, n2>>, <<n1, n2 + 1>>}

\* Arguments of a guided call: the keypoint lengths of KeypointLengths with a
\* two_view_geometry, and matching lengths without one.
GuidedArguments(n1, n2) ==
    {<<n[1], n[2], "object">> : n \in KeypointLengths(n1, n2)}
        \cup {<<n1, n2, "nullptr">>}

NoMatrix == [rows |-> 0, cols |-> 0, d |-> <<>>]

\* Extraction options that pass Check(), with max_num_features = 1.
ValidExtractionOptions ==
    [use_gpu |-> TRUE, gpu_index |-> <<-1>>, max_image_size |-> 3200,
     max_num_features |-> 1, octave_resolution |-> 3,
     peak_threshold |-> [num |-> 1, den |-> 150],
     edge_threshold |-> [num |-> 10, den |-> 1],
     max_num_orientations |-> 2, estimate_affine_shape |-> FALSE,
     domain_size_pooling |-> FALSE,
     dsp_min_scale |-> [num |-> 1, den |-> 6],
     dsp_max_scale |-> [num |-> 3, den |-> 1], dsp_num_scales |-> 10,
     normalization |-> "L1_ROOT"]

\* No extractor called, and nothing extracted or loaded.
InitNoExtraction ==
    /\ options = ValidExtractionOptions
    /\ levels = <<>>
    /\ features = <<>>
    /\ result = TRUE
    /\ keypoints = <<>>
    /\ descriptors = <<>>
    /\ vlfeat_descriptors = <<>>

\* The fields of o that Check() reads and the matchers do not.
InitCheckedOptions(o) ==
    /\ use_gpu = o.use_gpu
    /\ gpu_index = o.gpu_index
    /\ min_num_trials = o.min_num_trials
    /\ max_num_trials = o.max_num_trials
    /\ min_inlier_ratio = o.min_inlier_ratio
    /\ min_num_inliers = o.min_num_inliers

-----------------------------------------------------------------------------
(* Specification SpecBest: FindBestMatches on every matrix of Matrices.    *)

InitBest ==
    /\ pc = "ready"
    /\ call = "none"
    /\ output_arg = "object"
    /\ InitCheckedOptions(ValidOptions)
    /\ InitNoExtraction
    /\ descriptors1 = <<>>
    /\ descriptors2 = <<>>
    /\ keypoints1 = <<>>
    /\ keypoints2 = <<>>
    /\ config = "UNDEFINED"
    /\ sums = NoSums
    /\ \E t \in ThresholdPairs :
           /\ max_ratio = t.max_ratio
           /\ max_distance = t.max_distance
    /\ cross_check \in BOOLEAN
    /\ max_error \in MaxErrors
    /\ dists \in Matrices
    /\ cells = 0
    /\ filter_calls = 0
    /\ matches12 = <<>>
    /\ num_matches12 = 0
    /\ matches21 = <<>>
    /\ num_matches21 = 0
    /\ matches = StaleMatches
    /\ inlier_matches = <<>>

\* FindBestMatches(dists, max_ratio, max_distance, cross_check, &matches)
CallFindBestMatches ==
    /\ pc = "ready"
    /\ \E r \in {FindBestMatches(dists, ToFloat(max_ratio),
                                  ToFloat(max_distance), cross_check,
                                  matches)} :
           /\ matches12' = r.matches12
           /\ num_matches12' = r.num_matches12
           /\ matches21' = r.matches21
           /\ num_matches21' = r.num_matches21
           /\ matches' = r.matches
    /\ pc' = "returned"
    /\ call' = "FindBestMatches"
    /\ UNCHANGED <<optionVars, extractVars, output_arg, descriptors1,
                   descriptors2, keypoints1, keypoints2, config, sums, max_ratio,
                   max_distance, cross_check, max_error, dists, cells,
                   filter_calls, inlier_matches>>

NextBest == CallFindBestMatches

SpecBest == InitBest /\ [][NextBest]_vars

-----------------------------------------------------------------------------
(* Specification Spec: the two entry points on descriptor sets.            *)

\* The SiftMatchingOptions of the state.
match_options ==
    [use_gpu |-> use_gpu, gpu_index |-> gpu_index, max_ratio |-> max_ratio,
     max_distance |-> max_distance, cross_check |-> cross_check,
     max_error |-> max_error, min_num_trials |-> min_num_trials,
     max_num_trials |-> max_num_trials, min_inlier_ratio |-> min_inlier_ratio,
     min_num_inliers |-> min_num_inliers]

\* SiftMatchingOptions::Check() of the options o.
OptionsCheck(o) ==
    /\ o.use_gpu => Len(o.gpu_index) > 0
    /\ o.max_ratio.num > 0
    /\ o.max_distance.num > 0
    /\ o.max_error > 0
    /\ o.min_num_trials >= 0
    /\ o.max_num_trials > 0
    /\ o.min_num_trials <= o.max_num_trials
    /\ o.min_inlier_ratio.num >= 0
    /\ o.min_inlier_ratio.num <= o.min_inlier_ratio.den
    /\ o.min_num_inliers >= 0

Init ==
    /\ pc = "ready"
    /\ call = "none"
    /\ output_arg = "object"
    /\ InitNoExtraction
    /\ descriptors1 \in SeqsUpTo(DescriptorAlphabet, MaxFeatures)
    /\ descriptors2 \in SeqsUpTo(DescriptorAlphabet2, MaxFeatures)
    /\ keypoints1 = <<>>
    /\ keypoints2 = <<>>
    /\ config \in Configs
    /\ sums = NoSums
    /\ \E o \in MatchOptions :
           /\ InitCheckedOptions(o)
           /\ max_ratio = o.max_ratio
           /\ max_distance = o.max_distance
           /\ cross_check = o.cross_check
           /\ max_error = o.max_error
    /\ dists = NoMatrix
    /\ cells = 0
    /\ filter_calls = 0
    /\ matches12 = <<>>
    /\ num_matches12 = 0
    /\ matches21 = <<>>
    /\ num_matches21 = 0
    /\ matches = StaleMatches
    /\ inlier_matches = StaleMatches

\* The process dies in a failed CHECK: nothing is written.
Abort(fn) ==
    /\ pc' = "aborted"
    /\ call' = fn
    /\ UNCHANGED <<optionVars, extractVars, descriptors1, descriptors2, config,
                   sums, max_ratio, max_distance, cross_check, max_error, dists,
                   cells, filter_calls, matches12, num_matches12, matches21,
                   num_matches21, matches, inlier_matches>>

\* MatchSiftFeaturesCPU(match_options, descriptors1, descriptors2, ptr), ptr
\* being null or &matches.
MatchCall(ptr) ==
    /\ pc = "ready"
    /\ output_arg' = ptr
    /\ UNCHANGED <<keypoints1, keypoints2>>
    /\ IF ~OptionsCheck(match_options) \/ ptr = "nullptr"
         THEN Abort("MatchSiftFeaturesCPU")
         ELSE \E c \in {ComputeSiftDistanceMatrix(NullKeypoints, NullKeypoints,
                             descriptors1, descriptors2, NullFilter)} :
              \E r \in {FindBestMatches(c.dists, ToFloat(max_ratio),
                                        ToFloat(max_distance), cross_check,
                                        matches)} :
                  IF c.aborted
                    THEN Abort("MatchSiftFeaturesCPU")
                    ELSE /\ pc' = "returned"
                         /\ call' = "MatchSiftFeaturesCPU"
                         /\ dists' = c.dists
                         /\ cells' = c.cells
                         /\ filter_calls' = c.filter_calls
                         /\ matches12' = r.matches12
                         /\ num_matches12' = r.num_matches12
                         /\ matches21' = r.matches21
                         /\ num_matches21' = r.num_matches21
                         /\ matches' = r.matches
                         /\ UNCHANGED <<optionVars, extractVars, descriptors1,
                                        descriptors2, config, sums, max_ratio,
                                        max_distance, cross_check, max_error,
                                        inlier_matches>>

MatchSiftFeaturesCPU == \E ptr \in Pointers : MatchCall(ptr)

\* const float max_residual = max_error * max_error, for a whole max_error.
MaxResidual(maxe) == F32FromInt(maxe * maxe)

\* GuidedFilterFor falling through to the homography filter instead of returning.
GuidedFilterForNoReturn(cfg, maxe, s) ==
    IF cfg \in {"CALIBRATED", "UNCALIBRATED"}
      THEN [kind |-> "epipolar", F |-> Matrix3f(GeomF),
            max_residual |-> MaxResidual(maxe), sums |-> s]
      ELSE [kind |-> "homography", H |-> Matrix3f(GeomH),
            max_residual |-> MaxResidual(maxe), sums |-> s]

\* The guided_filter MatchGuidedSiftFeaturesCPU builds for a config, its
\* products summed in the orders s.
GuidedFilterFor(cfg, maxe, s) ==
    IF cfg \in {"CALIBRATED", "UNCALIBRATED"}
      THEN [kind |-> "epipolar", F |-> Matrix3f(GeomF),
            max_residual |-> MaxResidual(maxe), sums |-> s]
    ELSE IF cfg \in {"PLANAR", "PANORAMIC", "PLANAR_OR_PANORAMIC"}
      THEN [kind |-> "homography", H |-> Matrix3f(GeomH),
            max_residual |-> MaxResidual(maxe), sums |-> s]
    ELSE NullFilter

\* The orders a guided call with the config cfg can run with: the lambda of
\* the homography has no inner product.
GuidedSums(cfg) ==
    IF cfg \in {"CALIBRATED", "UNCALIBRATED"} THEN SummationOrders
    ELSE [product : Orders, inner : {"none"}]

\* MatchGuidedSiftFeaturesCPU(match_options, kps1, kps2, descriptors1,
\*                            descriptors2, ptr), ptr being null or
\* &two_view_geometry, in a build whose products sum in the orders s.
GuidedCall(kps1, kps2, ptr) ==
    /\ pc = "ready"
    /\ output_arg' = ptr
    /\ keypoints1' = kps1
    /\ keypoints2' = kps2
    /\ IF ~OptionsCheck(match_options) \/ ptr = "nullptr"
         THEN Abort("MatchGuidedSiftFeaturesCPU")
       ELSE IF GuidedFilterFor(config, max_error, sums) = NullFilter
         THEN /\ pc' = "noop"
              /\ call' = "MatchGuidedSiftFeaturesCPU"
              /\ UNCHANGED <<optionVars, extractVars, descriptors1,
                             descriptors2, config, sums, max_ratio, max_distance,
                             cross_check, max_error, dists, cells,
                             filter_calls, matches12, num_matches12, matches21,
                             num_matches21, matches, inlier_matches>>
       ELSE \E s \in GuidedSums(config) :
            \E c \in {ComputeSiftDistanceMatrix(Keypoints(kps1), Keypoints(kps2),
                           descriptors1, descriptors2,
                           GuidedFilterFor(config, max_error, s))} :
            \E r \in {FindBestMatches(c.dists, ToFloat(max_ratio),
                                      ToFloat(max_distance), cross_check,
                                      inlier_matches)} :
                IF c.aborted
                  THEN Abort("MatchGuidedSiftFeaturesCPU")
                  ELSE /\ pc' = "returned"
                       /\ call' = "MatchGuidedSiftFeaturesCPU"
                       /\ sums' = s
                       /\ dists' = c.dists
                       /\ cells' = c.cells
                       /\ filter_calls' = c.filter_calls
                       /\ matches12' = r.matches12
                       /\ num_matches12' = r.num_matches12
                       /\ matches21' = r.matches21
                       /\ num_matches21' = r.num_matches21
                       /\ inlier_matches' = r.matches
                       /\ UNCHANGED <<optionVars, extractVars, descriptors1,
                                      descriptors2, config, max_ratio,
                                      max_distance, cross_check, max_error,
                                      matches>>

\* The call with the arguments of GuidedArguments.
MatchGuidedSiftFeaturesCPU ==
    \E a \in GuidedArguments(Len(descriptors1), Len(descriptors2)) :
        GuidedCall(GridKeypoints(a[1]), GridKeypoints(a[2]), a[3])

Next == MatchSiftFeaturesCPU \/ MatchGuidedSiftFeaturesCPU

Spec == Init /\ [][Next]_vars

-----------------------------------------------------------------------------
(* Specification SpecUBC: the functions that fill *descriptors.  The two   *)
(* extractors are modelled around the detection of the VLFeat library: the *)
(* CHECKs and early returns before it, and from the features it detected   *)
(* on, the selection and copy of keypoints and descriptors and the         *)
(* transform to the UBC layout.  A failed CHECK, LOG(FATAL) or uncaught    *)
(* exception ends the process: the step leads to pc = "aborted" and the    *)
(* variables keep the values they had before the call.                     *)

\* Descriptors with distinct entries in every cell.
DescRamp == [k \in 1..kDim |-> k - 1]
DescRampDown == [k \in 1..kDim |-> kDim - k]
DescBins == [k \in 1..kDim |-> (k - 1) % 8]
VLFeatAlphabet == {DescRamp, DescBins}

\* Memory the code reads without having written it holds bytes of no known
\* value.  Such a byte is not given a value: the entry Indeterminate(i, k),
\* above kMaxEntry and so no byte of the program, stands for whatever byte
\* is at cell k of row i, every cell by a number of its own, so that a copy
\* or a permutation of the row is followed cell by cell and nothing else can
\* be concluded of it.
Indeterminate(i, k) == kMaxEntry + kDim * (i - 1) + k
IndeterminateRow(i) == [k \in 1..kDim |-> Indeterminate(i, k)]

FeatureKeypoint(x, y, scale, orientation) ==
    [x |-> x, y |-> y, scale |-> scale, orientation |-> orientation]

\* DOG level i with n features and the descriptor rows rows of their
\* orientations.
Level(i, n, rows) ==
    [num_features |-> n,
     keypoints |-> [j \in 1..Len(rows) |-> FeatureKeypoint(j, i, 1, 0)],
     descriptors |-> rows]

\* What a DOG level can hold: up to MaxFeatures features of one orientation
\* each, or one feature without an orientation.
LevelContents ==
    {<<Len(rows), rows>> : rows \in SeqsUpTo(VLFeatAlphabet, MaxFeatures) \ {<<>>}}
        \cup {<<1, <<>> >>}

\* Up to two DOG levels, each with a feature.
LevelSets ==
    {<<>>}
        \cup {<<Level(0, c0[1], c0[2])>> : c0 \in LevelContents}
        \cup {<<Level(0, c0[1], c0[2]), Level(1, c1[1], c1[2])>> :
                  c0 \in LevelContents, c1 \in LevelContents}

\* A VlCovDetFeature: octave o, scale s, a frame at (x, y) with the identity
\* as shape, and row, the descriptor
\* FeatureDescriptorsToUnsignedByte(descriptor) computed from its patch.
Feature(o, s, x, row) ==
    [o |-> o, s |-> s, x |-> x, y |-> 0, a11 |-> 1, a12 |-> 0, a21 |-> 0,
     a22 |-> 1, row |-> row]

\* Up to MaxFeatures features, in the order of their detection.
DetectedFeatures ==
    SeqsUpTo({Feature(1, 2, 1, DescRamp), Feature(1, 1, 2, DescBins),
              Feature(0, 2, 3, DescRamp)}, MaxFeatures)

\* Options the extractors run with, and options they stop on.
ExtractionOptionSets ==
    {ValidExtractionOptions,
     [ValidExtractionOptions EXCEPT !.max_num_features = 4],
     [ValidExtractionOptions EXCEPT !.normalization = "L2"],
     [ValidExtractionOptions EXCEPT !.max_num_features = 0],
     [ValidExtractionOptions EXCEPT !.gpu_index = <<>>],
     [ValidExtractionOptions EXCEPT !.estimate_affine_shape = TRUE],
     [ValidExtractionOptions EXCEPT !.domain_size_pooling = TRUE],
     [ValidExtractionOptions EXCEPT !.domain_size_pooling = TRUE,
                                    !.dsp_max_scale = [num |-> 1, den |-> 7]],
     [ValidExtractionOptions EXCEPT !.octave_resolution = 1001],
     [ValidExtractionOptions EXCEPT !.normalization = "other"]}

\* What a call of an extractor finds: the keypoints argument, whether the
\* bitmap is grey, and whether vl_sift_new / vl_covdet_new (detector) and
\* the vl_sift_new of the covariant descriptors (descriptor_filter) return
\* an object.
CallEnvironment(kptr, grey, detector, descriptor_filter) ==
    [keypoints_arg |-> kptr, is_grey |-> grey, detector |-> detector,
     descriptor_filter |-> descriptor_filter]
CallEnvironments ==
    {CallEnvironment("object", TRUE, TRUE, TRUE),
     CallEnvironment("nullptr", TRUE, TRUE, TRUE),
     CallEnvironment("object", FALSE, TRUE, TRUE),
     CallEnvironment("object", TRUE, FALSE, TRUE),
     CallEnvironment("object", TRUE, TRUE, FALSE)}

\* A text file of features: whether it can be opened, the numbers of its
\* header line and of its other lines, all whole, and whether its last line
\* ends with a newline.
FeatureLine(i, values) == <<i, 0, 1, 0>> \o values
TextFile(rows) ==
    [open |-> TRUE, header |-> <<Len(rows), kDim>>,
     lines |-> [i \in 1..Len(rows) |-> FeatureLine(i, rows[i])],
     final_newline |-> TRUE]

\* Files with no feature, one and two; one that cannot be opened, one of
\* dimension 64, two with a value out of range; files with fewer lines than
\* the header announces, a line with 100 values, an empty file and a header
\* of one number.
TextFiles ==
    {TextFile(<<>>), TextFile(<<DescRamp>>), TextFile(<<DescFull, DescBins>>),
     [TextFile(<<DescRamp>>) EXCEPT !.open = FALSE],
     [TextFile(<<DescRamp>>) EXCEPT !.header = <<1, 64>>],
     TextFile(<<[DescRamp EXCEPT ![5] = 256]>>),
     TextFile(<<DescFull, [DescRamp EXCEPT ![128] = -1]>>),
     [TextFile(<<DescRamp>>) EXCEPT !.header = <<2, kDim>>],
     [TextFile(<<DescRamp>>) EXCEPT !.header = <<2, kDim>>,
                                    !.final_newline = FALSE],
     [TextFile(<<>>) EXCEPT !.header = <<2, kDim>>],
     [TextFile(<<>>) EXCEPT !.header = <<2, kDim>>, !.final_newline = FALSE],
     TextFile(<<[k \in 1..100 |-> k]>>),
     [TextFile(<<>>) EXCEPT !.header = <<>>],
     [TextFile(<<>>) EXCEPT !.header = <<2>>]}

\* A keypoint left in *keypoints by an earlier use.
StaleKeypoint ==
    [x |-> [num |-> 19, den |-> 2], y |-> [num |-> 19, den |-> 2],
     a11 |-> 1, a12 |-> 0, a21 |-> 0, a22 |-> 1]

InitUBC ==
    /\ pc = "ready"
    /\ call = "none"
    /\ output_arg = "object"
    /\ InitCheckedOptions(ValidOptions)
    /\ options \in ExtractionOptionSets
    /\ levels = <<>>
    /\ features = <<>>
    /\ result = TRUE
    /\ keypoints \in {<<>>, <<StaleKeypoint>>}
    /\ descriptors = <<DescFull>>
    /\ vlfeat_descriptors = <<>>
    /\ descriptors1 = <<>>
    /\ descriptors2 = <<>>
    /\ keypoints1 = <<>>
    /\ keypoints2 = <<>>
    /\ config = "UNDEFINED"
    /\ sums = NoSums
    /\ max_ratio = ValidOptions.max_ratio
    /\ max_distance = ValidOptions.max_distance
    /\ cross_check = ValidOptions.cross_check
    /\ max_error = ValidOptions.max_error
    /\ dists = NoMatrix
    /\ cells = 0
    /\ filter_calls = 0
    /\ matches12 = <<>>
    /\ num_matches12 = 0
    /\ matches21 = <<>>
    /\ num_matches21 = 0
    /\ matches = <<>>
    /\ inlier_matches = <<>>

\* What the calls of SpecUBC leave alone.
matchVars == <<descriptors1, descriptors2, keypoints1, keypoints2, config, sums,
               max_ratio, max_distance, cross_check, max_error, dists, cells,
               filter_calls, matches12, num_matches12, matches21,
               num_matches21, matches, inlier_matches>>

\* SiftExtractionOptions::Check() of the options o.
ExtractionOptionsCheck(o) ==
    /\ o.use_gpu => Len(o.gpu_index) > 0
    /\ o.max_image_size > 0
    /\ o.max_num_features > 0
    /\ o.octave_resolution > 0
    /\ o.peak_threshold.num > 0
    /\ o.edge_threshold.num > 0
    /\ o.max_num_orientations > 0
    /\ o.domain_size_pooling =>
          /\ o.dsp_min_scale.num > 0
          /\ o.dsp_max_scale.num * o.dsp_min_scale.den
                 >= o.dsp_min_scale.num * o.dsp_max_scale.den
          /\ o.dsp_num_scales > 0

\* The normalizations the extractors know; any other is LOG(FATAL).
NormalizationSupported(o) == o.normalization \in {"L1_ROOT", "L2"}

\* The process dies in the extractor or loader fn.
ExtractAbort(fn) ==
    /\ pc' = "aborted"
    /\ call' = fn
    /\ UNCHANGED <<optionVars, matchVars, extractVars>>

\* The extractor fn returns false before it has written anything.
ExtractFailed(fn) ==
    /\ pc' = "returned"
    /\ call' = fn
    /\ result' = FALSE
    /\ UNCHANGED <<optionVars, matchVars, options, levels, features, keypoints,
                   descriptors, vlfeat_descriptors>>

RECURSIVE FirstLevelToKeep(_, _, _, _)
\* The loop that determines how many DOG levels to keep, from level i down
\* with num_features counted so far: first_level_to_keep.
FirstLevelToKeep(lv, maxf, i, num_features) ==
    IF i < 0 THEN 0
    ELSE IF num_features + lv[i + 1].num_features > maxf THEN i
    ELSE FirstLevelToKeep(lv, maxf, i - 1, num_features + lv[i + 1].num_features)

RECURSIVE KeptKeypoints(_, _)
\* (*keypoints)[k] = level_keypoints[i][j], from level i on.
KeptKeypoints(lv, i) ==
    IF i >= Len(lv) THEN <<>>
    ELSE lv[i + 1].keypoints \o KeptKeypoints(lv, i + 1)

RECURSIVE KeptDescriptors(_, _)
\* descriptors->row(k) = level_descriptors[i].row(j), from level i on.
KeptDescriptors(lv, i) ==
    IF i >= Len(lv) THEN <<>>
    ELSE lv[i + 1].descriptors \o KeptDescriptors(lv, i + 1)

\* ExtractSiftFeaturesCPU(options, bitmap, env.keypoints_arg, ptr), ptr
\* being null or &descriptors, detecting the DOG levels lv.
ExtractCall(lv, env, ptr) ==
    /\ pc = "ready"
    /\ output_arg' = ptr
    /\ IF \/ ~ExtractionOptionsCheck(options)
          \/ ~env.is_grey
          \/ env.keypoints_arg = "nullptr"
          \/ options.estimate_affine_shape
          \/ options.domain_size_pooling
         THEN ExtractAbort("ExtractSiftFeaturesCPU")
       ELSE IF ~env.detector
         THEN ExtractFailed("ExtractSiftFeaturesCPU")
       ELSE IF /\ ptr # "nullptr"
               /\ ~NormalizationSupported(options)
               /\ \E i \in 1..Len(lv) : Len(lv[i].keypoints) > 0
         THEN ExtractAbort("ExtractSiftFeaturesCPU")
       ELSE /\ \E first \in {FirstLevelToKeep(lv, options.max_num_features,
                                               Len(lv) - 1, 0)} :
                  /\ keypoints' = KeptKeypoints(lv, first)
                  /\ IF ptr = "nullptr"
                       THEN UNCHANGED <<descriptors, vlfeat_descriptors>>
                       ELSE /\ vlfeat_descriptors' = KeptDescriptors(lv, first)
                            /\ descriptors' =
                                   TransformVLFeatToUBCFeatureDescriptors(
                                       KeptDescriptors(lv, first))
            /\ levels' = lv
            /\ result' = TRUE
            /\ pc' = "returned"
            /\ call' = "ExtractSiftFeaturesCPU"
            /\ UNCHANGED <<optionVars, matchVars, options, features>>

ExtractSiftFeaturesCPU ==
    \E lv \in LevelSets, env \in CallEnvironments, ptr \in Pointers :
        ExtractCall(lv, env, ptr)

kMaxOctaveResolution == 1000

\* std::numeric_limits<int>::max()
kIntMax == 2147483647

\* The comparison of the sort: feature1 comes before feature2.
SortsBefore(feature1, feature2) ==
    IF feature1.o = feature2.o THEN feature1.s > feature2.s
                               ELSE feature1.o > feature2.o

\* The orders std::sort can leave the features fs in: the order of features
\* neither of which sorts before the other is not specified.
SortedFeatures(fs) ==
    {[i \in 1..Len(fs) |-> fs[p[i]]] :
        p \in {f \in [1..Len(fs) -> 1..Len(fs)] :
                  /\ \A i, j \in 1..Len(fs) : i # j => f[i] # f[j]
                  /\ \A i, j \in 1..Len(fs) :
                        i < j => ~SortsBefore(fs[f[j]], fs[f[i]])}}

\* octave_scale_idx of the feature f.
OctaveScaleIdx(f) == f.o * kMaxOctaveResolution + f.s

RECURSIVE CopyLoop(_, _, _, _, _)
\* The loop that copies the keypoints of the features fs from index i on,
\* *keypoints holding size keypoints: [count, ok], count features copied,
\* ok unless the CHECK_LE in the loop failed.
CopyLoop(fs, i, size, prev_octave_scale_idx, max_num_features) ==
    IF i >= Len(fs) THEN [count |-> i, ok |-> TRUE]
    ELSE IF OctaveScaleIdx(fs[i + 1]) > prev_octave_scale_idx
      THEN [count |-> i + 1, ok |-> FALSE]
    ELSE IF /\ OctaveScaleIdx(fs[i + 1]) # prev_octave_scale_idx
            /\ size + 1 >= max_num_features
      THEN [count |-> i + 1, ok |-> TRUE]
    ELSE CopyLoop(fs, i + 1, size + 1, OctaveScaleIdx(fs[i + 1]),
                  max_num_features)

\* The keypoint of the feature f: x and y are frame.x + 0.5 and
\* frame.y + 0.5, as rationals.
CovariantKeypoint(f) ==
    [x |-> [num |-> 2 * f.x + 1, den |-> 2],
     y |-> [num |-> 2 * f.y + 1, den |-> 2],
     a11 |-> f.a11, a12 |-> f.a12, a21 |-> f.a21, a22 |-> f.a22]

\* *keypoints after count features of fs were pushed onto kps.
PushedKeypoints(kps, fs, count) ==
    kps \o [i \in 1..count |-> CovariantKeypoint(fs[i])]

\* descriptors->resize(n, 128) on the rows d: a matrix of the same size is
\* left as it is, any other is allocated anew and none of its bytes is
\* written.
Resized(d, n) ==
    IF Len(d) = n THEN d ELSE [i \in 1..n |-> IndeterminateRow(i)]

\* The rows of the n keypoints before the transform: row i is computed from
\* features[i], which lies behind the detected features for i >= Len(fs), so
\* that row i then is computed from memory of no known content.
CovariantRows(fs, n) ==
    [i \in 1..n |-> IF i <= Len(fs) THEN fs[i].row ELSE IndeterminateRow(i)]

\* The part of ExtractCovariantSiftFeaturesCPU from the sort on, on the
\* sorted features fs, c being the result of the loop over them.
\* With more keypoints in *keypoints than features were detected, the loop
\* over the keypoints reads features[i] behind the array, which is
\* undefined: the call dies there, or goes on with rows computed from memory
\* of no known content.
CovariantCopy(fs, c, env, ptr) ==
    IF ~c.ok
      THEN ExtractAbort("ExtractCovariantSiftFeaturesCPU")
    ELSE IF ptr = "nullptr"
      THEN /\ keypoints' = PushedKeypoints(keypoints, fs, c.count)
           /\ features' = fs
           /\ result' = TRUE
           /\ pc' = "returned"
           /\ call' = "ExtractCovariantSiftFeaturesCPU"
           /\ UNCHANGED <<optionVars, matchVars, options, levels, descriptors,
                          vlfeat_descriptors>>
    ELSE IF ~env.descriptor_filter
      THEN /\ keypoints' = PushedKeypoints(keypoints, fs, c.count)
           /\ descriptors' = Resized(descriptors, Len(keypoints) + c.count)
           /\ features' = fs
           /\ result' = FALSE
           /\ pc' = "returned"
           /\ call' = "ExtractCovariantSiftFeaturesCPU"
           /\ UNCHANGED <<optionVars, matchVars, options, levels,
                          vlfeat_descriptors>>
    ELSE IF Len(keypoints) + c.count > 0 /\ ~NormalizationSupported(options)
      THEN ExtractAbort("ExtractCovariantSiftFeaturesCPU")
    ELSE \/ /\ keypoints' = PushedKeypoints(keypoints, fs, c.count)
            /\ vlfeat_descriptors' =
                   CovariantRows(fs, Len(keypoints) + c.count)
            /\ descriptors' =
                   TransformVLFeatToUBCFeatureDescriptors(
                       CovariantRows(fs, Len(keypoints) + c.count))
            /\ features' = fs
            /\ result' = TRUE
            /\ pc' = "returned"
            /\ call' = "ExtractCovariantSiftFeaturesCPU"
            /\ UNCHANGED <<optionVars, matchVars, options, levels>>
         \/ /\ Len(keypoints) + c.count > Len(fs)
            /\ ExtractAbort("ExtractCovariantSiftFeaturesCPU")

\* ExtractCovariantSiftFeaturesCPU(options, bitmap, env.keypoints_arg, ptr),
\* ptr being null or &descriptors, detecting the features detected.
ExtractCovariantCall(detected, env, ptr) ==
    /\ pc = "ready"
    /\ output_arg' = ptr
    /\ IF \/ ~ExtractionOptionsCheck(options)
          \/ ~env.is_grey
          \/ env.keypoints_arg = "nullptr"
         THEN ExtractAbort("ExtractCovariantSiftFeaturesCPU")
       ELSE IF ~env.detector
         THEN ExtractFailed("ExtractCovariantSiftFeaturesCPU")
       ELSE IF options.octave_resolution > kMaxOctaveResolution
         THEN ExtractAbort("ExtractCovariantSiftFeaturesCPU")
       ELSE \E fs \in SortedFeatures(detected) :
              \E c \in {CopyLoop(fs, 0, Len(keypoints), kIntMax,
                                 options.max_num_features)} :
                  CovariantCopy(fs, c, env, ptr)

ExtractCovariantSiftFeaturesCPU ==
    \E detected \in DetectedFeatures, env \in CallEnvironments,
       ptr \in Pointers :
        ExtractCovariantCall(detected, env, ptr)

\* TruncateCast<float, uint8_t>(value) of a whole value.
TruncateCast(value) ==
    IF value < 0 THEN 0 ELSE IF value > kMaxEntry THEN kMaxEntry ELSE value

\* line after the std::getline for feature i (from 1): line i, and behind
\* the last line the empty line the stream still yields after a final
\* newline; a std::getline on a stream at its end leaves line as it was.
LineOf(file, i) ==
    IF i <= Len(file.lines) THEN file.lines[i]
    ELSE IF file.final_newline THEN <<>>
    ELSE IF Len(file.lines) > 0 THEN file.lines[Len(file.lines)]
    ELSE file.header

\* item after the header has been read, for a header with a number: a
\* std::getline on a stream at its end leaves item as it was.
HeaderItem(file, k) ==
    IF k <= Len(file.header) THEN file.header[k]
                             ELSE file.header[Len(file.header)]

RECURSIVE ItemOf(_, _, _)
\* item after the k-th std::getline on the line of feature i (from 1).
ItemOf(file, i, k) ==
    IF k <= Len(LineOf(file, i)) THEN LineOf(file, i)[k]
    ELSE IF Len(LineOf(file, i)) > 0
      THEN LineOf(file, i)[Len(LineOf(file, i))]
    ELSE IF i = 1 THEN HeaderItem(file, 2)
    ELSE ItemOf(file, i - 1, 4 + kDim)

\* Everything LoadSiftFeaturesFromTextFile stops on but a null pointer: a
\* file that cannot be opened, std::stoul on the empty item of an empty
\* header, dim # 128, and a value below 0 or above 255.
LoadChecksPass(file) ==
    /\ file.open
    /\ Len(file.header) > 0
    /\ HeaderItem(file, 2) = kDim
    /\ \A i \in 1..HeaderItem(file, 1) :
          \A j \in 1..kDim :
              ItemOf(file, i, 4 + j) >= 0 /\ ItemOf(file, i, 4 + j) <= 255

\* LoadSiftFeaturesFromTextFile(path, kptr, ptr) on the file at path, kptr
\* being null or &keypoints and ptr null or &descriptors.
LoadCall(file, kptr, ptr) ==
    /\ pc = "ready"
    /\ output_arg' = ptr
    /\ IF kptr = "nullptr" \/ ptr = "nullptr" \/ ~LoadChecksPass(file)
         THEN ExtractAbort("LoadSiftFeaturesFromTextFile")
         ELSE /\ pc' = "returned"
              /\ call' = "LoadSiftFeaturesFromTextFile"
              /\ keypoints' =
                     [i \in 1..HeaderItem(file, 1) |->
                         FeatureKeypoint(ItemOf(file, i, 1), ItemOf(file, i, 2),
                                         ItemOf(file, i, 3), ItemOf(file, i, 4))]
              /\ descriptors' =
                     [i \in 1..HeaderItem(file, 1) |->
                         [j \in 1..kDim |-> TruncateCast(ItemOf(file, i, 4 + j))]]
              /\ UNCHANGED <<optionVars, matchVars, options, levels, features,
                             result, vlfeat_descriptors>>

LoadSiftFeaturesFromTextFile ==
    \E file \in TextFiles, kptr \in Pointers, ptr \in Pointers :
        LoadCall(file, kptr, ptr)

NextUBC ==
    \/ ExtractSiftFeaturesCPU
    \/ ExtractCovariantSiftFeaturesCPU
    \/ LoadSiftFeaturesFromTextFile

SpecUBC == InitUBC /\ [][NextUBC]_vars

-----------------------------------------------------------------------------
(* Properties of FindBestMatches and FindBestMatchesOneWay (SpecBest).     *)

RowIndices(M) == 0..(M.rows - 1)
ColIndices(M) == 0..(M.cols - 1)

Max(S) == CHOOSE m \in S : \A n \in S : n <= m

\* The largest value of row i1, 0 for a row without columns.
RowMax(M, i1) == Max({0} \cup {Coeff(M, i1, i2) : i2 \in ColIndices(M)})

\* The columns of row i1 that hold the row's largest value.
ArgMaxCols(M, i1) == {i2 \in ColIndices(M) : Coeff(M, i1, i2) = RowMax(M, i1)}

\* The pairs of a match list.
PairsOf(list) == {list[k] : k \in 1..Len(list)}

\* FindBestMatches has returned.
BestReturned == pc = "returned"

\* The pairs FindBestMatches must emit, from the two one-way results.
ExpectedPairs(M, fwd, bwd, cc) ==
    IF cc
      THEN {FeatureMatch(i1, i2) : <<i1, i2>> \in
               {p \in RowIndices(M) \X ColIndices(M) :
                   fwd[p[1] + 1] = p[2] /\ bwd[p[2] + 1] = p[1]}}
      ELSE {FeatureMatch(i1, fwd[i1 + 1]) :
               i1 \in {i \in RowIndices(M) : fwd[i + 1] # kNoMatch}}

\* C1: FindBestMatches emits exactly the pairs the one-way results determine:
\* without cross check one match (i1, forward[i1]) for every row whose forward
\* result is not the sentinel; with cross check the pairs with
\* forward[i1] = i2 and backward[i2] = i1, backward being the one-way selection
\* on the transpose with the same thresholds.  Every pair is emitted once and
\* nothing else is in the list.
C1_EmitsOneWayPairs ==
    BestReturned =>
        LET fwd == FindBestMatchesOneWay(dists, ToFloat(max_ratio),
                                         ToFloat(max_distance)).matches
            bwd == FindBestMatchesOneWay(Transpose(dists), ToFloat(max_ratio),
                                         ToFloat(max_distance)).matches
        IN  /\ PairsOf(matches) = ExpectedPairs(dists, fwd, bwd, cross_check)
            /\ Len(matches) = Cardinality(PairsOf(matches))

\* C1 witness: with cross check a forward match was dropped for want of the
\* backward match while another pair was emitted.
C1_Witness ==
    /\ BestReturned
    /\ Len(matches) >= 1
    /\ \E i1 \in RowIndices(dists) :
          /\ matches12[i1 + 1] # kNoMatch
          /\ cross_check
          /\ FeatureMatch(i1, matches12[i1 + 1]) \notin PairsOf(matches)

\* C2: with cross check the match list holds each set-1 index at most once and
\* each set-2 index at most once, and every index is a row (index1) or a
\* column (index2) of the matrix.
C2_CrossCheckedInjective ==
    (BestReturned /\ cross_check) =>
        /\ \A k \in 1..Len(matches) :
              /\ matches[k].point2D_idx1 \in RowIndices(dists)
              /\ matches[k].point2D_idx2 \in ColIndices(dists)
        /\ \A k, l \in 1..Len(matches) :
              k # l => /\ matches[k].point2D_idx1 # matches[l].point2D_idx1
                       /\ matches[k].point2D_idx2 # matches[l].point2D_idx2

\* C2 witness: two rows whose forward match is the same column, one of them
\* emitted.
C2_Witness ==
    /\ BestReturned
    /\ cross_check
    /\ Len(matches) >= 1
    /\ \E i, j \in RowIndices(dists) :
          i # j /\ matches12[i + 1] # kNoMatch /\ matches12[i + 1] = matches12[j + 1]

\* The three conditions of C3 for row i1 of M.
RowQualifies(M, i1, ratio, maxd) ==
    LET best_angle   == DistNormed(RowMax(M, i1))
        second_angle == DistNormed(RowBest(M, i1).second_best_dist)
    IN  /\ \E i2 \in ColIndices(M) : Coeff(M, i1, i2) > 0
        /\ ~F32Gt(best_angle, ToFloat(maxd))
        /\ F32Less(best_angle, F32Mul(ToFloat(ratio), second_angle))

\* C3 for one one-way result m, with count n, on the matrix M.
OneWayResultCorrect(M, m, n, ratio, maxd) ==
    /\ Len(m) = M.rows
    /\ \A i1 \in RowIndices(M) :
          IF RowQualifies(M, i1, ratio, maxd)
            THEN m[i1 + 1] \in ArgMaxCols(M, i1)
            ELSE m[i1 + 1] = kNoMatch
    /\ n = Cardinality({i1 \in RowIndices(M) : m[i1 + 1] # kNoMatch})

\* C3: FindBestMatchesOneWay matches a row iff the row has a positive entry,
\* best_angle <= max_distance and best_angle < max_ratio * second_angle; a
\* matched row maps to a column holding the row's maximum, every other row to
\* -1, and the count returned is the number of matched rows.  It holds of the
\* forward pass and of the backward pass on the transpose.
C3_OneWayMatchedIff ==
    BestReturned =>
        /\ OneWayResultCorrect(dists, matches12, num_matches12, max_ratio,
                               max_distance)
        /\ cross_check =>
              OneWayResultCorrect(Transpose(dists), matches21, num_matches21,
                                  max_ratio, max_distance)

\* C3 witness: one row matched, another with a positive entry rejected.
C3_Witness ==
    /\ BestReturned
    /\ \E i, j \in RowIndices(dists) :
          /\ matches12[i + 1] # kNoMatch
          /\ matches12[j + 1] = kNoMatch
          /\ RowMax(dists, j) > 0
          /\ F32Gt(DistNormed(RowMax(dists, j)), ToFloat(max_distance))

\* C4 as stated: a row whose maximum occurs in at least two columns is left
\* unmatched, for every max_ratio > 0 and max_distance > 0.
C4_TiedBestUnmatched ==
    BestReturned =>
        \A i1 \in RowIndices(dists) :
            Cardinality(ArgMaxCols(dists, i1)) >= 2 => matches12[i1 + 1] = kNoMatch

\* C5 as stated: a 1 x 1 matrix of value V > 0 is matched iff
\* acos(V / 262144) <= max_distance, for every max_ratio > 0.
C5_SingleCandidateDistanceOnly ==
    (BestReturned /\ dists.rows = 1 /\ dists.cols = 1 /\ Coeff(dists, 0, 0) > 0) =>
        (matches12[1] = 0 <=>
            ~F32Gt(DistNormed(Coeff(dists, 0, 0)), ToFloat(max_distance)))

\* C5 amended: a 1 x 1 matrix of value V > 0 is matched iff
\* acos(min(1, V / 262144)) <= max_distance and
\* acos(min(1, V / 262144)) < max_ratio * acos(0): second_best stays 0, its
\* angle is pi / 2, and the ratio test rejects a single candidate whose angle
\* is at least max_ratio * pi / 2.
C5_SingleCandidate ==
    (BestReturned /\ dists.rows = 1 /\ dists.cols = 1 /\ Coeff(dists, 0, 0) > 0) =>
        (matches12[1] = 0 <=>
            /\ ~F32Gt(DistNormed(Coeff(dists, 0, 0)), ToFloat(max_distance))
            /\ F32Less(DistNormed(Coeff(dists, 0, 0)),
                       F32Mul(ToFloat(max_ratio), DistNormed(0))))

\* C5 witness: a single candidate within max_distance that the ratio test
\* rejects.
C5_Witness ==
    /\ BestReturned
    /\ dists.rows = 1 /\ dists.cols = 1
    /\ Coeff(dists, 0, 0) > 0
    /\ ~F32Gt(DistNormed(Coeff(dists, 0, 0)), ToFloat(max_distance))
    /\ matches12 = <<kNoMatch>>

\* The smallest column holding the largest value of row i1.
FirstArgMaxCol(M, i1) ==
    CHOOSE i2 \in ArgMaxCols(M, i1) : \A j \in ArgMaxCols(M, i1) : i2 <= j

\* The largest value of row i1 outside one column holding the row's largest
\* value, 0 when there is no other column.
SecondLargest(M, i1) ==
    IF M.cols = 0 THEN 0
    ELSE Max({0} \cup {Coeff(M, i1, i2) :
                          i2 \in ColIndices(M) \ {FirstArgMaxCol(M, i1)}})

\* The largest value of row i1 that is strictly less than the row's largest
\* value, 0 when there is none.
LargestBelowBest(M, i1) ==
    Max({0} \cup {Coeff(M, i1, i2) : i2 \in
                     {j \in ColIndices(M) : Coeff(M, i1, j) < RowMax(M, i1)}})

\* C11 as stated: after the scan of a row, second_best is the largest value of
\* the row strictly less than best (0 when there is none); a column whose
\* value ties the current best does not raise second_best.
C11_SecondBestStrictlyBelow ==
    BestReturned =>
        \A i1 \in RowIndices(dists) :
            /\ RowBest(dists, i1).best_dist = RowMax(dists, i1)
            /\ RowBest(dists, i1).second_best_dist = LargestBelowBest(dists, i1)

\* C11 amended: after the scan of a row, best is the row's largest value and
\* second_best is the second-largest value counted with multiplicity, that is
\* the largest value among the columns other than one column holding best
\* (0 when there is none): a column whose value ties the current best raises
\* second_best to best.  It holds of every row of the matrix and of every row
\* of its transpose, whatever the order of the columns.
C11_SecondBestWithMultiplicity ==
    BestReturned =>
        /\ \A i1 \in RowIndices(dists) :
              /\ RowBest(dists, i1).best_dist = RowMax(dists, i1)
              /\ RowBest(dists, i1).second_best_dist = SecondLargest(dists, i1)
        /\ \A i2 \in RowIndices(Transpose(dists)) :
              RowBest(Transpose(dists), i2).second_best_dist
                  = SecondLargest(Transpose(dists), i2)

\* C11 witness: a scanned row whose positive maximum occurs in two columns and
\* whose second_best is that maximum, above the largest smaller value.
C11_Witness ==
    /\ BestReturned
    /\ \E i1 \in RowIndices(dists) :
          /\ Cardinality(ArgMaxCols(dists, i1)) >= 2
          /\ RowMax(dists, i1) > 0
          /\ RowBest(dists, i1).second_best_dist = RowMax(dists, i1)
          /\ LargestBelowBest(dists, i1) < RowMax(dists, i1)
          /\ Len(matches12) = dists.rows

\* C13: whenever FindBestMatchesOneWay maps a row to a column, that column is
\* the lowest-index column holding the row's largest value; with cross check
\* the backward pass on the transposed matrix likewise maps a column to the
\* lowest-index row holding the column's largest value.
C13_LowestIndexBest ==
    BestReturned =>
        /\ \A i1 \in RowIndices(dists) :
              matches12[i1 + 1] # kNoMatch =>
                  matches12[i1 + 1] = FirstArgMaxCol(dists, i1)
        /\ cross_check =>
              \A i2 \in ColIndices(dists) :
                  matches21[i2 + 1] # kNoMatch =>
                      matches21[i2 + 1] = FirstArgMaxCol(Transpose(dists), i2)

\* C13 witness: with cross check, a matched row whose largest value is in two
\* columns and a matched column whose largest value is in two rows.
C13_Witness ==
    /\ BestReturned
    /\ cross_check
    /\ \E i1 \in RowIndices(dists) :
          /\ matches12[i1 + 1] # kNoMatch
          /\ Cardinality(ArgMaxCols(dists, i1)) >= 2
    /\ \E i2 \in ColIndices(dists) :
          /\ matches21[i2 + 1] # kNoMatch
          /\ Cardinality(ArgMaxCols(Transpose(dists), i2)) >= 2

-----------------------------------------------------------------------------
(* Properties of the entry points (Spec).                                  *)

\* The configs for which MatchGuidedSiftFeaturesCPU builds a filter.
ModelConfigs == {"CALIBRATED", "UNCALIBRATED", "PLANAR", "PANORAMIC",
                 "PLANAR_OR_PANORAMIC"}

GuidedStep == pc = "ready" /\ call' = "MatchGuidedSiftFeaturesCPU"
GuidedReturned == call = "MatchGuidedSiftFeaturesCPU" /\ pc = "returned"
UnguidedReturned == call = "MatchSiftFeaturesCPU" /\ pc = "returned"

\* The sum of the squares of the entries of a descriptor.
SquaredNorm(u) == DotRange(u, u, 1, kDim)

\* C6 as stated: every entry of the distance matrix of two descriptor sets
\* with entries in [0, 255] is in [0, 262144].
C6_EntriesWithinUnit ==
    pc = "returned" =>
        \A i1 \in RowIndices(dists), i2 \in ColIndices(dists) :
            Coeff(dists, i1, i2) \in 0..kDistNormInv

\* C6 amended: every entry of the distance matrix is in [0, 128 * 255 * 255],
\* and it is in [0, 262144] when both descriptors of the cell have an L2 norm
\* of at most 512; with or without a guided filter.
C6_EntriesBounded ==
    pc = "returned" =>
        \A i1 \in RowIndices(dists), i2 \in ColIndices(dists) :
            /\ Coeff(dists, i1, i2) \in 0..(kDim * kMaxEntry * kMaxEntry)
            /\ (/\ SquaredNorm(descriptors1[i1 + 1]) <= kDistNormInv
                /\ SquaredNorm(descriptors2[i2 + 1]) <= kDistNormInv)
               => Coeff(dists, i1, i2) <= kDistNormInv

\* C6 witness: a matrix with an entry above 262144 and an entry of exactly
\* 262144 between two descriptors of norm 512.
C6_Witness ==
    /\ pc = "returned"
    /\ \E i1 \in RowIndices(dists), i2 \in ColIndices(dists) :
          Coeff(dists, i1, i2) > kDistNormInv
    /\ \E i1 \in RowIndices(dists), i2 \in ColIndices(dists) :
          /\ Coeff(dists, i1, i2) = kDistNormInv
          /\ SquaredNorm(descriptors1[i1 + 1]) = kDistNormInv
          /\ SquaredNorm(descriptors2[i2 + 1]) = kDistNormInv

\* The result of the guided filter of the last call for the cell (i1, i2).
Rejected(i1, i2) ==
    GuidedFilter(GuidedFilterFor(config, max_error, sums),
                 F32FromInt(keypoints1[i1 + 1].x), F32FromInt(keypoints1[i1 + 1].y),
                 F32FromInt(keypoints2[i2 + 1].x), F32FromInt(keypoints2[i2 + 1].y))

\* C7: in guided matching a cell whose predicate is true is stored as 0 and
\* every other cell is the integer dot product; a pair whose predicate is true
\* is never emitted, whatever cross_check and the thresholds are; a predicate
\* true of every cell gives an all-zero matrix and an empty match list.
C7_RejectedNeverMatched ==
    GuidedReturned =>
        /\ \A i1 \in RowIndices(dists), i2 \in ColIndices(dists) :
              Coeff(dists, i1, i2) =
                  IF Rejected(i1, i2) THEN 0
                  ELSE Dot(descriptors1[i1 + 1], descriptors2[i2 + 1])
        /\ \A k \in 1..Len(inlier_matches) :
              ~Rejected(inlier_matches[k].point2D_idx1,
                        inlier_matches[k].point2D_idx2)
        /\ (\A i1 \in RowIndices(dists), i2 \in ColIndices(dists) : Rejected(i1, i2))
              => /\ \A i1 \in RowIndices(dists), i2 \in ColIndices(dists) :
                       Coeff(dists, i1, i2) = 0
                 /\ inlier_matches = <<>>

\* C7 witness: a rejected cell that is the largest dot product of its row,
\* next to an emitted match in the same row.
C7_Witness ==
    /\ GuidedReturned
    /\ \E k \in 1..Len(inlier_matches) :
          \E i2 \in ColIndices(dists) :
              /\ Rejected(inlier_matches[k].point2D_idx1, i2)
              /\ Dot(descriptors1[inlier_matches[k].point2D_idx1 + 1],
                     descriptors2[i2 + 1])
                 > Coeff(dists, inlier_matches[k].point2D_idx1,
                         inlier_matches[k].point2D_idx2)

\* C7 witness of the special case: every cell of a non-empty matrix rejected.
C7_WitnessAllRejected ==
    /\ GuidedReturned
    /\ dists.rows >= 1 /\ dists.cols >= 1
    /\ \A i1 \in RowIndices(dists), i2 \in ColIndices(dists) : Rejected(i1, i2)

\* C8: with options that pass Check(), a two_view_geometry and a config that
\* is none of the five model configs the guided call returns normally,
\* computes no distance matrix and leaves inlier_matches as it was, same
\* pairs in the same order.
C8_NoModelNoOp ==
    [][(/\ GuidedStep
        /\ OptionsCheck(match_options)
        /\ output_arg' = "object"
        /\ config \notin ModelConfigs) =>
          /\ pc' = "noop"
          /\ inlier_matches' = inlier_matches
          /\ cells' = cells /\ filter_calls' = filter_calls /\ dists' = dists]_vars

\* C8 witness: the call was a no-op on two non-empty descriptor sets and the
\* earlier matches are still in the list.
C8_Witness ==
    /\ call = "MatchGuidedSiftFeaturesCPU" /\ pc = "noop"
    /\ Len(descriptors1) >= 1 /\ Len(descriptors2) >= 1
    /\ inlier_matches = StaleMatches /\ Len(inlier_matches) = 2

\* C9: after a guided call with a model config inlier_matches is the list
\* this call computed, the list FindBestMatches produces from an empty list:
\* nothing of the earlier contents is kept.  The same holds of the output list
\* of MatchSiftFeaturesCPU.
C9_ResultReplacesList ==
    /\ GuidedReturned =>
          /\ config \in ModelConfigs
          /\ inlier_matches =
                 FindBestMatches(dists, ToFloat(max_ratio), ToFloat(max_distance),
                                 cross_check, <<>>).matches
    /\ UnguidedReturned =>
          matches = FindBestMatches(dists, ToFloat(max_ratio),
                                    ToFloat(max_distance), cross_check,
                                    <<>>).matches

\* C9 witness: a guided call produced matches and the earlier ones are gone.
C9_Witness ==
    /\ GuidedReturned
    /\ Len(inlier_matches) >= 1
    /\ \A k \in 1..Len(StaleMatches) : StaleMatches[k] \notin PairsOf(inlier_matches)

\* C10: a guided call whose keypoint sequences do not have the lengths of
\* their descriptor sets aborts before a cell is computed or the predicate is
\* evaluated, and inlier_matches is neither cleared nor appended to.
C10_MismatchAborts ==
    [][(/\ GuidedStep
        /\ OptionsCheck(match_options)
        /\ output_arg' = "object"
        /\ config \in ModelConfigs
        /\ \/ Len(keypoints1') # Len(descriptors1)
           \/ Len(keypoints2') # Len(descriptors2)) =>
          /\ pc' = "aborted"
          /\ cells' = 0 /\ filter_calls' = 0
          /\ inlier_matches' = inlier_matches]_vars

\* C10 witness: the call aborted on a keypoints2 of the wrong length with the
\* earlier matches still in the list.
C10_Witness ==
    /\ call = "MatchGuidedSiftFeaturesCPU" /\ pc = "aborted"
    /\ OptionsCheck(match_options) /\ output_arg = "object"
    /\ config \in ModelConfigs
    /\ Len(descriptors1) >= 1 /\ Len(descriptors2) >= 1
    /\ Len(keypoints1) = Len(descriptors1)
    /\ Len(keypoints2) # Len(descriptors2)
    /\ inlier_matches = StaleMatches /\ Len(inlier_matches) = 2

\* The match list MatchSiftFeaturesCPU writes for the descriptor sets d1, d2.
UnguidedMatches(d1, d2, ratio, maxd, cc) ==
    FindBestMatches(ComputeSiftDistanceMatrix(NullKeypoints, NullKeypoints,
                                              d1, d2, NullFilter).dists,
                    ratio, maxd, cc, <<>>).matches

\* The pairs of a match list with the two indices of every pair exchanged.
SwappedPairsOf(list) ==
    {FeatureMatch(list[k].point2D_idx2, list[k].point2D_idx1) :
        k \in 1..Len(list)}

\* C14: with cross check, (i, j) is in the match set of
\* MatchSiftFeaturesCPU(descriptors1, descriptors2) iff (j, i) is in the match
\* set of MatchSiftFeaturesCPU(descriptors2, descriptors1) under the same
\* thresholds: exchanging the two images only exchanges the two indices of
\* every match.
C14_CrossCheckedSymmetric ==
    (UnguidedReturned /\ cross_check) =>
        PairsOf(UnguidedMatches(descriptors2, descriptors1,
                                ToFloat(max_ratio), ToFloat(max_distance),
                                cross_check))
            = SwappedPairsOf(matches)

\* C14 witness: sets of different sizes, a match emitted and a forward match
\* that the cross check dropped.
C14_Witness ==
    /\ UnguidedReturned
    /\ cross_check
    /\ Len(descriptors1) # Len(descriptors2)
    /\ Len(matches) >= 1
    /\ \E i1 \in 0..(Len(descriptors1) - 1) :
          /\ matches12[i1 + 1] # kNoMatch
          /\ FeatureMatch(i1, matches12[i1 + 1]) \notin PairsOf(matches)

-----------------------------------------------------------------------------
(* Properties of TransformVLFeatToUBCFeatureDescriptors (SpecUBC).         *)

\* An extractor returned true and has written *descriptors.
ExtractReturned ==
    /\ call \in {"ExtractSiftFeaturesCPU", "ExtractCovariantSiftFeaturesCPU"}
    /\ pc = "returned"
    /\ result
    /\ output_arg = "object"

\* The result of one transform of the rows of vlfeat: in each of the 16 cells
\* c, out[8c + perm[k]] = in[8c + k] with perm = [0, 7, 6, 5, 4, 3, 2, 1].
IsCellwisePermuted(out, in) ==
    LET perm == <<0, 7, 6, 5, 4, 3, 2, 1>>
    IN  /\ Len(out) = Len(in)
        /\ \A n \in 1..Len(in) :
              /\ DOMAIN out[n] = 1..kDim
              /\ \A c \in 0..15 : \A k \in 0..7 :
                    out[n][8 * c + perm[k + 1] + 1] = in[n][8 * c + k + 1]

\* C12 as stated: one transform is the cellwise permutation and there is a
\* 128-entry descriptor d for which transforming it twice yields a descriptor
\* different from d.
C12_TwiceDiffers ==
    /\ ExtractReturned => IsCellwisePermuted(descriptors, vlfeat_descriptors)
    /\ \E d \in VLFeatAlphabet \cup {DescRampDown, DescA, DescB, DescFull} :
          TransformRow(TransformRow(d)) # d

\* C12 amended: one transform is the cellwise permutation
\* out[8c + perm[k]] = in[8c + k] with perm = [0, 7, 6, 5, 4, 3, 2, 1], and
\* perm is its own inverse (perm[perm[k]] = k), so transforming twice returns
\* the original descriptors: the descriptors an extractor returns are the
\* cellwise permutation of the rows it computed, and the transform of the
\* returned descriptors is those rows again.
C12_TwiceIsIdentity ==
    ExtractReturned =>
        /\ IsCellwisePermuted(descriptors, vlfeat_descriptors)
        /\ TransformVLFeatToUBCFeatureDescriptors(descriptors) = vlfeat_descriptors

\* C12 witness: a descriptor with 128 distinct entries, changed by the
\* transform of the extractor and back to itself when transformed again.
C12_Witness ==
    /\ ExtractReturned
    /\ Len(vlfeat_descriptors) >= 1
    /\ vlfeat_descriptors[1] = DescRamp
    /\ descriptors[1] # vlfeat_descriptors[1]
    /\ TransformVLFeatToUBCFeatureDescriptors(descriptors) = vlfeat_descriptors

=============================================================================
